---- MODULE Spec2Model ----
(***************************************************************************)
(* Real-time event-streaming client of the document question-answering    *)
(* front end: the WebSocketManager singleton (frontend/lib/websocket.ts), *)
(* the useWebSocket hook, the ChatInterface component that turns the     *)
(* query:* events into chat messages, and the DocumentsPanel component    *)
(* that tracks document and tree jobs through useDocumentUpdates.         *)
(*                                                                         *)
(* Texts are TLA+ strings, concatenated with \o as JavaScript's + does.   *)
(* Money amounts are in hundredths of a dollar (cost 1 stands for 0.01).  *)
(***************************************************************************)
EXTENDS Naturals, Sequences, FiniteSets, TLC

\* ------------------------------------------------------------------ bounds
\* Sockets that io() may create in one run.
MaxSockets == 2
\* Inbound query frames plus submitted questions in one run.
MaxEvents == 4

\* Sockets that the io() calls of useDocumentUpdates may create in one run.
MaxHookSockets == 2

\* on() registrations the consumers hold at a time, over both event names.
MaxHandlers == 3

\* Handler calls after which a forEach is taken to run forever.
MaxCalls == MaxHandlers + 2

\* ------------------------------------------------------- program constants
maxReconnectAttempts == 5

\* reconnectionAttempts in the io() options of useDocumentUpdates
hookReconnectionAttempts == 10

\* ------------------------------------------------------------ input domains
\* Handlers a consumer may pass to on(): one that returns, one that throws, one
\* that calls on(event, plain), one that calls off(event, plain), and one that
\* calls off(event, itself) and then on(event, itself).
Handlers == {"plain", "thrower", "adder", "remover", "resubscriber"}

\* An optional field is <<>> when absent (undefined) and <<v>> otherwise.
Absent == <<>>

DocIds == {1, 2}

\* DocumentUpdateEvent, with the status its handler forces
DocumentUpdateEvents ==
  [doc_id : DocIds, status : {"processing", "indexed", "error"},
   num_pages : {Absent, <<5>>}, progress : {Absent, <<50>>}]

\* TreeGenerationEvent, with the status its handler forces
TreeGenerationEvents ==
  [doc_id : DocIds, status : {"started", "processing", "completed", "error"},
   progress : {Absent, <<50>>}]

\* What documentsApi.getAll() returns, as loadDocuments maps it to Document.
ApiDocuments ==
  << [id |-> 1, status |-> "uploaded", pageCount |-> <<3>>, treeGenerated |-> FALSE,
      progress |-> Absent],
     [id |-> 2, status |-> "uploaded", pageCount |-> <<3>>, treeGenerated |-> FALSE,
      progress |-> Absent] >>

\* The handlers that leave the registry alone.
PassiveHandlers == {"plain", "thrower"}

ThinkingChunks == {"Look", "ing"}
AnswerChunks == {"The ", "answer."}
NodeLists == {<<"0001", "0002">>, <<"0003">>}
AnswerPayloads == {[cost |-> 1, tokens_used |-> 120, cached |-> FALSE, citations |-> <<>>]}
ErrorMessages == {"boom"}
Question == "q1"
ConversationId == "conv-1"
DisconnectReasons == {"transport close", "io server disconnect"}

Sockets == 1..MaxSockets

HookSockets == 1..MaxHookSockets

\* Two of the event names the manager forwards to its local listeners.
EventNames == {"tree:started", "tree:progress"}

VARIABLES
  \* WebSocketManager
  socket,             \* 0 is null, otherwise the socket io() returned
  isConnecting,
  reconnectAttempts,
  listeners,          \* set of <<event, handler>> registrations
  \* the sockets io() created, as socket.io-client runs them
  ioCreated,          \* how many sockets io() has created
  ioState,            \* per socket: none, opening, connected, reconnecting, closed
  ioBackoff,          \* per socket: reconnection attempts started since the last open
  framesSent,         \* 'query' frames emitted on the channel
  \* useWebSocket state
  hookIsConnected,
  connectionStatus,
  \* ChatInterface state
  mounted,
  messages,
  isLoading,
  currentQuestionId,
  streamedThinking,
  streamedNodes,
  streamedAnswer,
  isStreamingAnswer,
  rendered,           \* the state values the closures of the last render captured
  \* history of the run, for stating the properties
  lastEvent,          \* the handler or call that produced this state
  prevAttempts,       \* reconnectAttempts before that handler ran
  failedSinceConnect, \* failed attempts since the last successful connect
  failedSinceResume,  \* <<n>>: n attempts have failed since a connect() made after the cap
                      \* was exhausted opened a socket; <<>> when there was no such call
  errorStatusCount,   \* 'error' statuses published since the last successful connect
  phase,              \* of the current question: idle, submitted, streaming, completed, failed,
                      \* cancelled (disconnect() was called while it was in flight)
  recvThinking,       \* thinking chunks received since the last query:started
  recvAnswer,         \* answer chunks received since the last query:started or cancelling disconnect()
  recvNodes,          \* node lists received since the last query:started
  terminals,          \* terminal messages appended since the last question began
  nEvents,            \* inbound query frames and submitted questions so far
  lastSend,           \* what the sendQuery call of the last step did, NoSend when it made none
  pubStatus,          \* the status of the last connection-status event published
  pubFlip,            \* flips each time a connection-status event is published
  \* the listeners Map as emit() walks it
  listenerOrder,      \* per event: the handlers of its Set, in insertion order
  pub,                \* the publish in progress, or the last one finished
  regLog,             \* per event: the handlers subscribed, in subscription order
  lastCall,           \* the last on()/off() call and whether its handler was registered
  \* DocumentsPanel state
  documents,
  generatingTreeFor,
  \* useDocumentUpdates
  panelMounted,       \* a DocumentsPanel instance is mounted
  hookConnecting,     \* isConnecting.current of the mounted instance
  socketRef,          \* socketRef.current of the mounted instance, 0 is null
  cleanupSocket,      \* the socket the effect's cleanup closes over, 0 when there is none
  instanceFirst,      \* the first socket the mounted instance created
  docIoCreated,       \* how many sockets the hook's io() calls have created
  docIo,              \* per hook socket: none, opening, connected, reconnecting, closed
  docBackoff,         \* per hook socket: reconnection attempts since the last open
  terminalJobs,       \* <<doc id, job kind>> of the jobs that have had a terminal event
  lastJob             \* the job event handled last: its kind, doc_id, status and absent fields

connVars == <<socket, isConnecting, reconnectAttempts, ioCreated, ioState, ioBackoff>>
hookVars == <<hookIsConnected, connectionStatus>>
chatVars == <<messages, isLoading, currentQuestionId, streamedThinking, streamedNodes,
              streamedAnswer, isStreamingAnswer>>
connHist == <<prevAttempts, failedSinceConnect, failedSinceResume, errorStatusCount>>
chatHist == <<phase, recvThinking, recvAnswer, recvNodes, terminals, nEvents>>
statusHist == <<pubStatus, pubFlip>>
dispVars == <<listenerOrder, pub, regLog, lastCall>>
panelIo == <<panelMounted, hookConnecting, socketRef, cleanupSocket, instanceFirst,
             docIoCreated, docIo, docBackoff>>
jobVars == <<documents, generatingTreeFor, panelIo, terminalJobs, lastJob>>
vars == <<socket, isConnecting, reconnectAttempts, listeners, ioCreated, ioState, ioBackoff,
          framesSent, hookIsConnected, connectionStatus, mounted, messages, isLoading,
          currentQuestionId, streamedThinking, streamedNodes, streamedAnswer,
          isStreamingAnswer, rendered, lastEvent, prevAttempts, failedSinceConnect, failedSinceResume,
          errorStatusCount, phase, recvThinking, recvAnswer, recvNodes, terminals, nEvents,
          lastSend, statusHist, dispVars, jobVars>>

\* ---------------------------------------------------------------- helpers
\* this.socket?.connected
SocketConnected == socket # 0 /\ ioState[socket] = "connected"

\* The greeting the message list starts with.
Greeting == [role |-> "assistant", content |-> "Hello!"]

\* Is a handler registered for the event (listeners.get(event) is non-empty)?
Registered(event) == \E r \in listeners : r[1] = event

\* What the closures of a render capture.
Snapshot(answer, loading, connected) ==
  [streamedAnswer |-> answer, isLoading |-> loading, isConnected |-> connected]

\* A socket after a failed attempt: the first failure starts the reconnection
\* cycle, and the cycle gives up once reconnectionAttempts attempts have failed.
IoStateAfterError(st, k) ==
  IF st = "opening" THEN "reconnecting"
  ELSE IF k >= maxReconnectAttempts THEN "closed" ELSE "reconnecting"

IoBackoffAfterError(st, k) ==
  IF st = "opening" THEN 1
  ELSE IF k >= maxReconnectAttempts THEN 0 ELSE k + 1

\* A socket after it lost its connection: the client reconnects by itself
\* unless the server closed the socket.
IoStateAfterDisconnect(reason) ==
  IF reason = "io server disconnect" THEN "closed" ELSE "reconnecting"

IoBackoffAfterDisconnect(reason) ==
  IF reason = "io server disconnect" THEN 0 ELSE 1

\* An isConnected() that answers whether the manager holds a socket.
HoldsSocket == socket # 0

\* isConnected(): this.socket?.connected ?? false
isConnected == IF socket = 0 THEN FALSE ELSE ioState[socket] = "connected"

\* getConnectionState()
ConnState ==
  IF SocketConnected THEN "connected"
  ELSE IF isConnecting THEN "connecting"
  ELSE "disconnected"

\* emit('connection-status', {status}) has been called.
Published(status) == pubStatus' = status /\ pubFlip' = ~pubFlip

\* handleConnectionStatus of useWebSocket, reached through emit('connection-status').
HookAfterStatus(status) ==
  IF Registered("connection-status")
  THEN /\ connectionStatus' = status
       /\ hookIsConnected' = (status = "connected")
  ELSE UNCHANGED hookVars

\* The step called no sendQuery.
NoSend == [called |-> FALSE, conversation_id |-> "", local |-> <<>>]

\* No publish has run yet.
NoPublish ==
  [event |-> "", atStart |-> <<>>, called |-> <<>>, terminated |-> TRUE,
   propagated |-> FALSE]

\* No on()/off() call has run yet.
NoCall == [op |-> "", event |-> "", handler |-> "", was |-> FALSE]

\* No job event has been handled yet.
NoJob == [kind |-> "none", doc_id |-> 0, status |-> "", absent |-> {}]

\* ------------------------------------------------------------------- Init
Init ==
  /\ socket = 0
  /\ isConnecting = FALSE
  /\ reconnectAttempts = 0
  /\ listeners = {}
  /\ ioCreated = 0
  /\ ioState = [s \in Sockets |-> "none"]
  /\ ioBackoff = [s \in Sockets |-> 0]
  /\ framesSent = 0
  /\ hookIsConnected = FALSE
  /\ connectionStatus = "disconnected"
  /\ mounted = FALSE
  /\ messages = <<Greeting>>
  /\ isLoading = FALSE
  /\ currentQuestionId = 0
  /\ streamedThinking = ""
  /\ streamedNodes = <<>>
  /\ streamedAnswer = ""
  /\ isStreamingAnswer = FALSE
  /\ rendered = Snapshot("", FALSE, FALSE)
  /\ lastEvent = "init"
  /\ prevAttempts = 0
  /\ failedSinceConnect = 0
  /\ failedSinceResume = <<>>
  /\ errorStatusCount = 0
  /\ phase = "idle"
  /\ recvThinking = <<>>
  /\ recvAnswer = <<>>
  /\ recvNodes = <<>>
  /\ terminals = 0
  /\ nEvents = 0
  /\ lastSend = NoSend
  /\ pubStatus = "none"
  /\ pubFlip = FALSE
  /\ listenerOrder = [e \in EventNames |-> <<>>]
  /\ pub = NoPublish
  /\ regLog = [e \in EventNames |-> <<>>]
  /\ lastCall = NoCall
  /\ documents = <<>>
  /\ generatingTreeFor = {}
  /\ panelMounted = FALSE
  /\ hookConnecting = FALSE
  /\ socketRef = 0
  /\ cleanupSocket = 0
  /\ instanceFirst = 0
  /\ docIoCreated = 0
  /\ docIo = [s \in HookSockets |-> "none"]
  /\ docBackoff = [s \in HookSockets |-> 0]
  /\ terminalJobs = {}
  /\ lastJob = NoJob

\* ------------------------------------------------------ WebSocketManager
\* Does connect() return at once?
ConnectReturnsEarly == SocketConnected \/ isConnecting

\* The call of connect() opens a socket after the 'error' status was published
\* and while no socket of the manager is alive.
ResumesAfterCap ==
  /\ ~ConnectReturnsEarly
  /\ reconnectAttempts >= maxReconnectAttempts
  /\ \A s \in Sockets : ioState[s] \in {"none", "closed"}

\* connect(): the state of the manager and of the sockets after the call.
connect ==
  IF ConnectReturnsEarly
  THEN UNCHANGED connVars
  ELSE /\ ioCreated < MaxSockets
       /\ isConnecting' = TRUE
       /\ ioCreated' = ioCreated + 1
       /\ socket' = ioCreated + 1
       /\ ioState' = [ioState EXCEPT ![ioCreated + 1] = "opening"]
       /\ UNCHANGED <<reconnectAttempts, ioBackoff>>

\* A call of connect() by a consumer (useWebSocket hands it out).
Connect ==
  /\ connect
  /\ lastEvent' = "connect()"
  /\ prevAttempts' = reconnectAttempts
  /\ UNCHANGED <<listeners, framesSent, hookVars, mounted, chatVars, rendered,
                 failedSinceConnect, errorStatusCount, chatHist>>
  /\ failedSinceResume' = IF ResumesAfterCap THEN <<0>> ELSE failedSinceResume
  /\ UNCHANGED <<statusHist, dispVars, jobVars>>
  /\ lastSend' = NoSend

\* The handler of the socket's 'connect' event.
OnConnect(s) ==
  /\ ioState[s] \in {"opening", "reconnecting"}
  /\ ioState' = [ioState EXCEPT ![s] = "connected"]
  /\ ioBackoff' = [ioBackoff EXCEPT ![s] = 0]
  /\ isConnecting' = FALSE
  /\ reconnectAttempts' = 0
  /\ HookAfterStatus("connected")
  /\ Published("connected")
  /\ lastEvent' = "connect"
  /\ prevAttempts' = reconnectAttempts
  /\ failedSinceConnect' = 0
  /\ failedSinceResume' = <<>>
  /\ errorStatusCount' = 0
  /\ UNCHANGED <<socket, ioCreated, listeners, framesSent, mounted, chatVars, rendered,
                 chatHist>>
  /\ UNCHANGED <<dispVars, jobVars>>
  /\ lastSend' = NoSend

\* The handler of the socket's 'disconnect' event.
OnDisconnect(s, reason) ==
  /\ ioState[s] = "connected"
  /\ ioState' = [ioState EXCEPT ![s] = IoStateAfterDisconnect(reason)]
  /\ ioBackoff' = [ioBackoff EXCEPT ![s] = IoBackoffAfterDisconnect(reason)]
  /\ isConnecting' = FALSE
  /\ HookAfterStatus("disconnected")
  /\ Published("disconnected")
  /\ lastEvent' = "disconnect"
  /\ prevAttempts' = reconnectAttempts
  /\ UNCHANGED <<socket, reconnectAttempts, ioCreated, listeners, framesSent, mounted,
                 chatVars, rendered, failedSinceConnect, failedSinceResume, errorStatusCount, chatHist>>
  /\ UNCHANGED <<dispVars, jobVars>>
  /\ lastSend' = NoSend

\* A connect_error handler that counts a failure twice.
AttemptsCountedTwice(n) == n + 2

\* reconnectAttempts after one more failed attempt.
AttemptsAfterError(n) == n + 1

\* Does the connect_error handler publish the 'error' status?
PublishesError(n) == n >= maxReconnectAttempts

\* The handler of the socket's 'connect_error' event.
OnConnectError(s) ==
  /\ ioState[s] \in {"opening", "reconnecting"}
  /\ ioState' = [ioState EXCEPT ![s] = IoStateAfterError(ioState[s], ioBackoff[s])]
  /\ ioBackoff' = [ioBackoff EXCEPT ![s] = IoBackoffAfterError(ioState[s], ioBackoff[s])]
  /\ isConnecting' = FALSE
  /\ reconnectAttempts' = AttemptsAfterError(reconnectAttempts)
  /\ IF PublishesError(reconnectAttempts')
     THEN /\ HookAfterStatus("error")
          /\ Published("error")
          /\ errorStatusCount' = errorStatusCount + 1
     ELSE UNCHANGED <<hookVars, errorStatusCount, statusHist>>
  /\ lastEvent' = "connect_error"
  /\ prevAttempts' = reconnectAttempts
  /\ failedSinceConnect' = failedSinceConnect + 1
  /\ failedSinceResume' = IF failedSinceResume = <<>> THEN <<>>
                          ELSE <<failedSinceResume[1] + 1>>
  /\ UNCHANGED <<socket, ioCreated, listeners, framesSent, mounted, chatVars, rendered,
                 chatHist>>
  /\ UNCHANGED <<dispVars, jobVars>>
  /\ lastSend' = NoSend

\* disconnect(): socket.disconnect() runs the 'disconnect' handler at once when
\* the socket was connected, then the manager drops the socket.
Disconnect ==
  /\ IF socket # 0
     THEN /\ ioState' = [ioState EXCEPT ![socket] = "closed"]
          /\ ioBackoff' = [ioBackoff EXCEPT ![socket] = 0]
          /\ socket' = 0
          /\ isConnecting' = FALSE
          /\ IF ioState[socket] = "connected"
             THEN HookAfterStatus("disconnected") /\ Published("disconnected")
             ELSE UNCHANGED <<hookVars, statusHist>>
     ELSE UNCHANGED <<ioState, ioBackoff, socket, isConnecting, hookVars, statusHist>>
  /\ lastEvent' = "disconnect()"
  /\ prevAttempts' = reconnectAttempts
  /\ IF socket # 0 /\ phase \in {"submitted", "streaming"}
     THEN phase' = "cancelled" /\ recvAnswer' = <<>>
     ELSE UNCHANGED <<phase, recvAnswer>>
  /\ UNCHANGED <<reconnectAttempts, ioCreated, listeners, framesSent, mounted, chatVars,
                 rendered, failedSinceConnect, failedSinceResume, errorStatusCount, recvThinking,
                 recvNodes, terminals, nEvents>>
  /\ UNCHANGED <<dispVars, jobVars>>
  /\ lastSend' = NoSend

\* ------------------------------------ useDocumentUpdates / DocumentsPanel
OtherVars ==
  <<connVars, listeners, framesSent, hookVars, mounted, chatVars, rendered,
    connHist, chatHist, statusHist, dispVars>>

\* The effect's guard: isConnecting.current || socketRef.current?.connected
EffectReturnsEarly(connecting, ref, io) ==
  connecting \/ (ref # 0 /\ io[ref] = "connected")

\* The effect's cleanup on the sockets: if (socket.connected) socket.disconnect()
CleanupIo(io, s) == IF s # 0 /\ io[s] = "connected" THEN [io EXCEPT ![s] = "closed"] ELSE io

\* The effect of useDocumentUpdates, run with the refs as given and the sockets
\* as io: past the guard it sets isConnecting.current, calls io(WS_URL, ...) and
\* attaches the handlers to the new socket.
RunEffect(connecting, ref, io) ==
  IF EffectReturnsEarly(connecting, ref, io)
  THEN /\ hookConnecting' = connecting
       /\ socketRef' = ref
       /\ cleanupSocket' = 0
       /\ docIo' = io
       /\ UNCHANGED docIoCreated
  ELSE /\ docIoCreated < MaxHookSockets
       /\ hookConnecting' = TRUE
       /\ socketRef' = docIoCreated + 1
       /\ cleanupSocket' = docIoCreated + 1
       /\ docIo' = [io EXCEPT ![docIoCreated + 1] = "opening"]
       /\ docIoCreated' = docIoCreated + 1

\* A DocumentsPanel instance mounts: fresh refs and state, and the effect runs.
PanelMount ==
  /\ ~panelMounted
  /\ panelMounted' = TRUE
  /\ RunEffect(FALSE, 0, docIo)
  /\ instanceFirst' = docIoCreated + 1
  /\ lastJob' = NoJob
  /\ lastEvent' = "panel mount"
  /\ UNCHANGED <<documents, generatingTreeFor, docBackoff, terminalJobs>>
  /\ UNCHANGED OtherVars
  /\ lastSend' = NoSend

\* React Strict Mode: right after the mount the effect's cleanup runs and the
\* effect runs again, on the same instance.
StrictRemount ==
  /\ panelMounted
  /\ lastEvent = "panel mount"
  /\ RunEffect(FALSE, socketRef, CleanupIo(docIo, cleanupSocket))
  /\ lastJob' = NoJob
  /\ lastEvent' = "strict remount"
  /\ UNCHANGED <<panelMounted, instanceFirst, documents, generatingTreeFor, docBackoff,
                 terminalJobs>>
  /\ UNCHANGED OtherVars
  /\ lastSend' = NoSend

\* The instance unmounts: the effect's cleanup runs and the state is dropped.
PanelUnmount ==
  /\ panelMounted
  /\ panelMounted' = FALSE
  /\ docIo' = CleanupIo(docIo, cleanupSocket)
  /\ hookConnecting' = FALSE
  /\ socketRef' = 0
  /\ cleanupSocket' = 0
  /\ documents' = <<>>
  /\ generatingTreeFor' = {}
  /\ lastJob' = NoJob
  /\ lastEvent' = "panel unmount"
  /\ UNCHANGED <<instanceFirst, docIoCreated, docBackoff, terminalJobs>>
  /\ UNCHANGED OtherVars
  /\ lastSend' = NoSend

\* The handlers of socket s belong to the mounted instance: its refs and state
\* setters are those of the instance that created the socket.
OwnedByMounted(s) == panelMounted /\ s >= instanceFirst

\* The handler of 'connect' on a hook socket.
PanelSocketConnect(s) ==
  /\ docIo[s] \in {"opening", "reconnecting"}
  /\ docIo' = [docIo EXCEPT ![s] = "connected"]
  /\ docBackoff' = [docBackoff EXCEPT ![s] = 0]
  /\ hookConnecting' = IF OwnedByMounted(s) THEN FALSE ELSE hookConnecting
  /\ lastJob' = NoJob
  /\ lastEvent' = "panel connect"
  /\ UNCHANGED <<panelMounted, socketRef, cleanupSocket, instanceFirst, docIoCreated,
                 documents, generatingTreeFor, terminalJobs>>
  /\ UNCHANGED OtherVars
  /\ lastSend' = NoSend

\* The handler of 'disconnect' on a hook socket.
PanelSocketDisconnect(s, reason) ==
  /\ docIo[s] = "connected"
  /\ docIo' = [docIo EXCEPT ![s] = IoStateAfterDisconnect(reason)]
  /\ docBackoff' = [docBackoff EXCEPT ![s] = IoBackoffAfterDisconnect(reason)]
  /\ hookConnecting' = IF OwnedByMounted(s) /\ reason = "io server disconnect"
                       THEN FALSE ELSE hookConnecting
  /\ lastJob' = NoJob
  /\ lastEvent' = "panel disconnect"
  /\ UNCHANGED <<panelMounted, socketRef, cleanupSocket, instanceFirst, docIoCreated,
                 documents, generatingTreeFor, terminalJobs>>
  /\ UNCHANGED OtherVars
  /\ lastSend' = NoSend

\* The handler of 'connect_error' on a hook socket: onError?.(error)
PanelSocketConnectError(s) ==
  /\ docIo[s] \in {"opening", "reconnecting"}
  /\ docIo' = [docIo EXCEPT ![s] =
                 IF docIo[s] = "reconnecting" /\ docBackoff[s] >= hookReconnectionAttempts
                 THEN "closed" ELSE "reconnecting"]
  /\ docBackoff' = [docBackoff EXCEPT ![s] =
                      IF docIo[s] = "opening" THEN 1
                      ELSE IF @ >= hookReconnectionAttempts THEN 0 ELSE @ + 1]
  /\ hookConnecting' = IF OwnedByMounted(s) THEN FALSE ELSE hookConnecting
  /\ lastJob' = NoJob
  /\ lastEvent' = "onError"
  /\ UNCHANGED <<panelMounted, socketRef, cleanupSocket, instanceFirst, docIoCreated,
                 documents, generatingTreeFor, terminalJobs>>
  /\ UNCHANGED OtherVars
  /\ lastSend' = NoSend

\* loadDocuments on mount: the API's answer becomes the document list.
LoadDocuments ==
  /\ panelMounted
  /\ documents = <<>>
  /\ documents' = ApiDocuments
  /\ lastJob' = NoJob
  /\ lastEvent' = "loadDocuments"
  /\ UNCHANGED <<generatingTreeFor, panelIo, terminalJobs>>
  /\ UNCHANGED <<connVars, listeners, framesSent, hookVars, mounted, chatVars, rendered,
                 connHist, chatHist, statusHist, dispVars>>
  /\ lastSend' = NoSend

\* handleGenerateTree up to its await: the job of docId starts.
HandleGenerateTree(docId) ==
  /\ \E i \in DOMAIN documents : documents[i].id = docId
  /\ generatingTreeFor' = generatingTreeFor \cup {docId}
  /\ terminalJobs' = terminalJobs \ {<<docId, "tree">>}
  /\ lastJob' = NoJob
  /\ lastEvent' = "handleGenerateTree"
  /\ UNCHANGED <<documents, panelIo>>
  /\ UNCHANGED <<connVars, listeners, framesSent, hookVars, mounted, chatVars, rendered,
                 connHist, chatHist, statusHist, dispVars>>
  /\ lastSend' = NoSend

\* handleGenerateTree's catch: treeApi.generate(docId) failed.
GenerateTreeFailed(docId) ==
  /\ docId \in generatingTreeFor
  /\ generatingTreeFor' = generatingTreeFor \ {docId}
  /\ lastJob' = NoJob
  /\ lastEvent' = "generate failed"
  /\ UNCHANGED <<documents, panelIo, terminalJobs>>
  /\ UNCHANGED <<connVars, listeners, framesSent, hookVars, mounted, chatVars, rendered,
                 connHist, chatHist, statusHist, dispVars>>
  /\ lastSend' = NoSend

\* A match that takes every document for the event's.
MatchesAny(doc, docId) == TRUE

\* doc.id === event.doc_id
Matches(doc, docId) == doc.id = docId

\* prev.map(doc => match ? update : doc), updated[i] being the update of docs[i]
MapDocuments(docs, docId, updated) ==
  [i \in DOMAIN docs |-> IF Matches(docs[i], docId) THEN updated[i] ELSE docs[i]]

\* The fields of an event that are absent.
AbsentFields(event, fields) == {f \in fields : event[f] = Absent}

\* onDocumentUpdate, called by the handlers of document:update,
\* document:processing, document:indexed and document:error.
OnDocumentUpdate(s, event) ==
  /\ docIo[s] = "connected"
  /\ LET updated ==
           [i \in DOMAIN documents |->
              [documents[i] EXCEPT !.status = event.status,
                                   !.pageCount = IF event.num_pages # Absent
                                                 THEN event.num_pages ELSE @,
                                   !.progress = event.progress]]
     IN documents' = IF OwnedByMounted(s)
                     THEN MapDocuments(documents, event.doc_id, updated)
                     ELSE documents
  /\ terminalJobs' = IF event.status \in {"indexed", "error"}
                     THEN terminalJobs \cup {<<event.doc_id, "document">>}
                     ELSE terminalJobs
  /\ lastJob' = [kind |-> "document", doc_id |-> event.doc_id, status |-> event.status,
                 absent |-> AbsentFields(event, {"num_pages", "progress"})]
  /\ lastEvent' = "document:update"
  /\ UNCHANGED <<generatingTreeFor, panelIo>>
  /\ UNCHANGED <<connVars, listeners, framesSent, hookVars, mounted, chatVars, rendered,
                 connHist, chatHist, statusHist, dispVars>>
  /\ lastSend' = NoSend

\* onTreeGeneration, called by the handlers of tree:started, tree:progress,
\* tree:completed and tree:error.
OnTreeGeneration(s, event) ==
  /\ docIo[s] = "connected"
  /\ LET updated ==
           [i \in DOMAIN documents |->
              [documents[i] EXCEPT !.progress = event.progress,
                                   !.status = IF event.status = "completed"
                                              THEN "indexed" ELSE @,
                                   !.treeGenerated = (event.status = "completed")]]
     IN documents' = IF OwnedByMounted(s)
                     THEN MapDocuments(documents, event.doc_id, updated)
                     ELSE documents
  /\ generatingTreeFor' = IF OwnedByMounted(s) /\ event.status \in {"completed", "error"}
                          THEN generatingTreeFor \ {event.doc_id}
                          ELSE generatingTreeFor
  /\ terminalJobs' = IF event.status \in {"completed", "error"}
                     THEN terminalJobs \cup {<<event.doc_id, "tree">>}
                     ELSE terminalJobs
  /\ lastJob' = [kind |-> "tree", doc_id |-> event.doc_id, status |-> event.status,
                 absent |-> AbsentFields(event, {"progress"})]
  /\ lastEvent' = "tree"
  /\ UNCHANGED panelIo
  /\ UNCHANGED <<connVars, listeners, framesSent, hookVars, mounted, chatVars, rendered,
                 connHist, chatHist, statusHist, dispVars>>
  /\ lastSend' = NoSend

\* ------------------------------------------------- on / off / emit
Range(seq) == {seq[i] : i \in 1..Len(seq)}

\* A Set.add that puts the new entry first.
SetAddFront(entries, h) == IF h \in Range(entries) THEN entries ELSE <<h>> \o entries

\* A list push in place of Set.add: an entry already present is added again.
SetAddAgain(entries, h) == Append(entries, h)

\* Set.prototype.add on the entries in insertion order.
SetAdd(entries, h) == IF h \in Range(entries) THEN entries ELSE Append(entries, h)

\* Set.prototype.delete
SetDelete(entries, h) == SelectSeq(entries, LAMBDA x : x # h)

Position(entries, h) == CHOOSE i \in 1..Len(entries) : entries[i] = h

\* Set.prototype.forEach walks the live entry list: deleting an entry it has
\* passed moves its position back by one.
PassedAfterDelete(entries, passed, h) ==
  IF h \in Range(entries) /\ Position(entries, h) <= passed THEN passed - 1 ELSE passed

\* An emit whose callback has no try/catch.
ThrowEscapes(h) == h = "thrower"

\* emit wraps each handler call in try/catch: no throw leaves the callback.
ThrowPropagates(h) == FALSE

\* What the call handler(data) does to the entries of the event being
\* emitted, and to the number of entries forEach has passed.
RunHandler(h, entries, passed) ==
  CASE h = "adder" ->
         [entries |-> SetAdd(entries, "plain"), passed |-> passed]
    [] h = "remover" ->
         [entries |-> SetDelete(entries, "plain"),
          passed |-> PassedAfterDelete(entries, passed, "plain")]
    [] h = "resubscriber" ->
         [entries |-> SetAdd(SetDelete(entries, h), h),
          passed |-> PassedAfterDelete(entries, passed, h)]
    [] OTHER -> [entries |-> entries, passed |-> passed]

\* listeners.get(event)?.forEach(handler => { try { handler(data) } catch ... }),
\* cut off after MaxCalls handler calls (a forEach that never ends).
RECURSIVE ForEach(_, _, _)
ForEach(entries, passed, called) ==
  IF passed >= Len(entries)
  THEN [entries |-> entries, called |-> called, terminated |-> TRUE, propagated |-> FALSE]
  ELSE IF Len(called) >= MaxCalls
  THEN [entries |-> entries, called |-> called, terminated |-> FALSE, propagated |-> FALSE]
  ELSE LET h == entries[passed + 1]
           after == RunHandler(h, entries, passed + 1)
       IN IF ThrowPropagates(h)
          THEN [entries |-> entries, called |-> Append(called, h), terminated |-> TRUE,
                propagated |-> TRUE]
          ELSE ForEach(after.entries, after.passed, Append(called, h))

Registrations == Len(listenerOrder["tree:started"]) + Len(listenerOrder["tree:progress"])

\* on(event, handler), called by a consumer
On(e, h) ==
  /\ pub.terminated
  /\ h \in Range(listenerOrder[e]) \/ Registrations < MaxHandlers
  /\ listenerOrder' = [listenerOrder EXCEPT ![e] = SetAdd(@, h)]
  /\ regLog' = [regLog EXCEPT ![e] = IF h \in Range(@) THEN @ ELSE Append(@, h)]
  /\ lastCall' = [op |-> "on", event |-> e, handler |-> h,
                  was |-> h \in Range(listenerOrder[e])]
  /\ pub' = NoPublish
  /\ lastEvent' = "on()"
  /\ UNCHANGED <<connVars, listeners, framesSent, hookVars, mounted, chatVars, rendered,
                 connHist, chatHist, statusHist, jobVars>>
  /\ lastSend' = NoSend

\* off(event, handler), called by a consumer
Off(e, h) ==
  /\ pub.terminated
  /\ listenerOrder' = [listenerOrder EXCEPT ![e] = SetDelete(@, h)]
  /\ regLog' = [regLog EXCEPT ![e] = SelectSeq(@, LAMBDA x : x # h)]
  /\ lastCall' = [op |-> "off", event |-> e, handler |-> h,
                  was |-> h \in Range(listenerOrder[e])]
  /\ pub' = NoPublish
  /\ lastEvent' = "off()"
  /\ UNCHANGED <<connVars, listeners, framesSent, hookVars, mounted, chatVars, rendered,
                 connHist, chatHist, statusHist, jobVars>>
  /\ lastSend' = NoSend

\* A tree:started or tree:progress frame arrives on socket s and is forwarded:
\* this.emit(event, data)
Emit(s, e) ==
  /\ pub.terminated
  /\ ioState[s] = "connected"
  /\ LET run == ForEach(listenerOrder[e], 0, <<>>)
     IN /\ listenerOrder' = [listenerOrder EXCEPT ![e] = run.entries]
        /\ regLog' = [regLog EXCEPT ![e] = run.entries]
        /\ pub' = [event |-> e, atStart |-> regLog[e], called |-> run.called,
                   terminated |-> run.terminated, propagated |-> run.propagated]
  /\ lastCall' = NoCall
  /\ lastEvent' = "emit"
  /\ UNCHANGED <<connVars, listeners, framesSent, hookVars, mounted, chatVars, rendered,
                 connHist, chatHist, statusHist, jobVars>>
  /\ lastSend' = NoSend

\* ---------------------------------------------------------- ChatInterface
\* The handlers the effects of ChatInterface register.
ChatHandlers ==
  {<<"connection-status", "handleConnectionStatus">>,
   <<"query:thinking_stream", "handleThinkingStream">>,
   <<"query:nodes", "handleNodes">>,
   <<"query:answer_stream", "handleAnswerStream">>,
   <<"query:answer_complete", "handleAnswerComplete">>,
   <<"query:error", "handleQueryError">>,
   <<"query:started", "handleQueryStarted">>,
   <<"query:completed", "handleQueryCompleted">>}

\* The first render of ChatInterface and its effects: useWebSocket registers its
\* status handler and connects, then the query handlers are registered.
Mount ==
  /\ ~mounted
  /\ mounted' = TRUE
  /\ listeners' = listeners \cup ChatHandlers
  /\ hookIsConnected' = SocketConnected
  /\ connectionStatus' = IF SocketConnected THEN "connected" ELSE "disconnected"
  /\ IF SocketConnected THEN UNCHANGED connVars ELSE connect
  /\ rendered' = Snapshot(streamedAnswer, isLoading, SocketConnected)
  /\ lastEvent' = "mount"
  /\ prevAttempts' = reconnectAttempts
  /\ UNCHANGED <<framesSent, chatVars, failedSinceConnect, errorStatusCount, chatHist>>
  /\ failedSinceResume' = IF ResumesAfterCap THEN <<0>> ELSE failedSinceResume
  /\ UNCHANGED <<statusHist, dispVars, jobVars>>
  /\ lastSend' = NoSend

\* The first render of a component that calls useWebSocket: useState reads
\* wsManager.isConnected() once; the effects have not run yet.
HookRender ==
  /\ ~mounted
  /\ mounted' = TRUE
  /\ hookIsConnected' = isConnected
  /\ connectionStatus' = IF isConnected THEN "connected" ELSE "disconnected"
  /\ rendered' = Snapshot(streamedAnswer, isLoading, isConnected)
  /\ lastEvent' = "render"
  /\ UNCHANGED <<connVars, listeners, framesSent, chatVars, connHist, chatHist>>
  /\ UNCHANGED <<statusHist, dispVars, jobVars>>
  /\ lastSend' = NoSend

\* The effects of that first render, run after the commit: the status handler is
\* registered and the hook connects when the manager is not connected. The
\* state read by useState is not read again.
HookEffect ==
  /\ mounted
  /\ ~Registered("connection-status")
  /\ listeners' = listeners \cup ChatHandlers
  /\ IF isConnected THEN UNCHANGED connVars ELSE connect
  /\ lastEvent' = "mount"
  /\ prevAttempts' = reconnectAttempts
  /\ UNCHANGED <<framesSent, hookVars, mounted, chatVars, rendered, failedSinceConnect,
                 errorStatusCount, chatHist>>
  /\ failedSinceResume' = IF ResumesAfterCap THEN <<0>> ELSE failedSinceResume
  /\ UNCHANGED <<statusHist, dispVars, jobVars>>
  /\ lastSend' = NoSend

\* A re-render: the effect cleanup unregisters the handlers of the previous
\* render and the effect registers those of this one, which close over the
\* current state.
Render ==
  /\ mounted
  /\ rendered # Snapshot(streamedAnswer, isLoading, hookIsConnected)
  /\ rendered' = Snapshot(streamedAnswer, isLoading, hookIsConnected)
  /\ UNCHANGED <<connVars, listeners, framesSent, hookVars, mounted, chatVars, lastEvent,
                 connHist, chatHist>>
  /\ UNCHANGED <<statusHist, dispVars, jobVars>>
  /\ lastSend' = NoSend

\* A server frame can arrive on a connected socket while the run's budget lasts.
Delivers(s) == ioState[s] = "connected" /\ nEvents < MaxEvents

\* handleQueryStarted
StartedThinking == ""

StartedNodes == <<>>

\* A handleQueryStarted that leaves the answer text as it is.
KeptAnswer == streamedAnswer

StartedAnswer == ""

\* 'query:started' arrives and is published to handleQueryStarted.
QueryStarted(s) ==
  /\ Delivers(s)
  /\ IF Registered("query:started")
     THEN /\ streamedThinking' = StartedThinking
          /\ streamedNodes' = StartedNodes
          /\ streamedAnswer' = StartedAnswer
     ELSE UNCHANGED <<streamedThinking, streamedNodes, streamedAnswer>>
  /\ lastEvent' = "query:started"
  /\ phase' = "streaming"
  /\ recvThinking' = <<>>
  /\ recvAnswer' = <<>>
  /\ recvNodes' = <<>>
  /\ terminals' = 0
  /\ nEvents' = nEvents + 1
  /\ UNCHANGED <<connVars, listeners, framesSent, hookVars, mounted, messages, isLoading,
                 currentQuestionId, isStreamingAnswer, rendered, connHist>>
  /\ UNCHANGED <<statusHist, dispVars, jobVars>>
  /\ lastSend' = NoSend

\* The updater with its operands swapped: data.chunk + prev
PrependChunk(prev, chunk) == chunk \o prev

\* The updater of handleThinkingStream and of handleAnswerStream: prev + data.chunk
AppendChunk(prev, chunk) == prev \o chunk

\* 'query:thinking_stream' arrives and is published to handleThinkingStream.
ThinkingStream(s, chunk) ==
  /\ Delivers(s)
  /\ streamedThinking' = IF Registered("query:thinking_stream")
                         THEN AppendChunk(streamedThinking, chunk)
                         ELSE streamedThinking
  /\ lastEvent' = "query:thinking_stream"
  /\ recvThinking' = Append(recvThinking, chunk)
  /\ nEvents' = nEvents + 1
  /\ UNCHANGED <<connVars, listeners, framesSent, hookVars, mounted, messages, isLoading,
                 currentQuestionId, streamedNodes, streamedAnswer, isStreamingAnswer,
                 rendered, connHist, phase, recvAnswer, recvNodes, terminals>>
  /\ UNCHANGED <<statusHist, dispVars, jobVars>>
  /\ lastSend' = NoSend

\* An additive handleNodes: [...prev, ...data.node_list]
NodesAppended(prev, nodeList) == prev \o nodeList

\* handleNodes: setStreamedNodes(data.node_list)
NodesAfter(prev, nodeList) == nodeList

\* 'query:nodes' arrives and is published to handleNodes.
Nodes(s, nodeList) ==
  /\ Delivers(s)
  /\ streamedNodes' = IF Registered("query:nodes")
                      THEN NodesAfter(streamedNodes, nodeList)
                      ELSE streamedNodes
  /\ lastEvent' = "query:nodes"
  /\ recvNodes' = Append(recvNodes, nodeList)
  /\ nEvents' = nEvents + 1
  /\ UNCHANGED <<connVars, listeners, framesSent, hookVars, mounted, messages, isLoading,
                 currentQuestionId, streamedThinking, streamedAnswer, isStreamingAnswer,
                 rendered, connHist, phase, recvThinking, recvAnswer, terminals>>
  /\ UNCHANGED <<statusHist, dispVars, jobVars>>
  /\ lastSend' = NoSend

\* 'query:answer_stream' arrives and is published to handleAnswerStream.
AnswerStream(s, chunk) ==
  /\ Delivers(s)
  /\ IF Registered("query:answer_stream")
     THEN /\ isStreamingAnswer' = TRUE
          /\ streamedAnswer' = AppendChunk(streamedAnswer, chunk)
     ELSE UNCHANGED <<isStreamingAnswer, streamedAnswer>>
  /\ lastEvent' = "query:answer_stream"
  /\ recvAnswer' = Append(recvAnswer, chunk)
  /\ nEvents' = nEvents + 1
  /\ UNCHANGED <<connVars, listeners, framesSent, hookVars, mounted, messages, isLoading,
                 currentQuestionId, streamedThinking, streamedNodes, rendered, connHist,
                 phase, recvThinking, recvNodes, terminals>>
  /\ UNCHANGED <<statusHist, dispVars, jobVars>>
  /\ lastSend' = NoSend

\* The answer text handleAnswerComplete reads: the streamedAnswer its closure
\* captured when the handler was registered.
CompletedContent == rendered.streamedAnswer

\* The assistantMessage handleAnswerComplete builds.
AssistantMessage(data) ==
  [role |-> "assistant", content |-> CompletedContent, cost |-> data.cost,
   tokens |-> data.tokens_used, cached |-> data.cached, citations |-> data.citations]

\* 'query:answer_complete' arrives and is published to handleAnswerComplete.
AnswerComplete(s, data) ==
  /\ Delivers(s)
  /\ IF Registered("query:answer_complete")
     THEN /\ isStreamingAnswer' = FALSE
          /\ messages' = Append(messages, AssistantMessage(data))
          /\ isLoading' = FALSE
          /\ currentQuestionId' = 0
          /\ streamedThinking' = ""
          /\ streamedNodes' = <<>>
          /\ streamedAnswer' = ""
          /\ terminals' = terminals + 1
     ELSE UNCHANGED <<chatVars, terminals>>
  /\ lastEvent' = "query:answer_complete"
  /\ phase' = "completed"
  /\ nEvents' = nEvents + 1
  /\ UNCHANGED <<connVars, listeners, framesSent, hookVars, mounted, rendered, connHist,
                 recvThinking, recvAnswer, recvNodes>>
  /\ UNCHANGED <<statusHist, dispVars, jobVars>>
  /\ lastSend' = NoSend

\* The errorMessage handleQueryError builds.
ErrorMessage(data) == [role |-> "system", content |-> "Error: " \o data.message]

\* The accumulators after handleQueryError: the handler sets messages, isLoading
\* and currentQuestionId, then stops at setThinkingProcess, a name the file
\* never declares; emit() catches the exception.
ErrorLeaves(acc) == acc

\* 'query:error' arrives and is published to handleQueryError.
QueryError(s, msg) ==
  /\ Delivers(s)
  /\ IF Registered("query:error")
     THEN /\ messages' = Append(messages, ErrorMessage([message |-> msg]))
          /\ isLoading' = FALSE
          /\ currentQuestionId' = 0
          /\ streamedThinking' = ErrorLeaves(streamedThinking)
          /\ streamedNodes' = ErrorLeaves(streamedNodes)
          /\ streamedAnswer' = ErrorLeaves(streamedAnswer)
          /\ terminals' = terminals + 1
     ELSE UNCHANGED <<messages, isLoading, currentQuestionId, streamedThinking,
                      streamedNodes, streamedAnswer, terminals>>
  /\ lastEvent' = "query:error"
  /\ phase' = "failed"
  /\ nEvents' = nEvents + 1
  /\ UNCHANGED <<connVars, listeners, framesSent, hookVars, mounted, isStreamingAnswer,
                 rendered, connHist, recvThinking, recvAnswer, recvNodes>>
  /\ UNCHANGED <<statusHist, dispVars, jobVars>>
  /\ lastSend' = NoSend

\* 'query:completed' arrives and is published to handleQueryCompleted.
QueryCompleted(s) ==
  /\ Delivers(s)
  /\ isLoading' = IF Registered("query:completed") THEN FALSE ELSE isLoading
  /\ lastEvent' = "query:completed"
  /\ nEvents' = nEvents + 1
  /\ UNCHANGED <<connVars, listeners, framesSent, hookVars, mounted, messages,
                 currentQuestionId, streamedThinking, streamedNodes, streamedAnswer,
                 isStreamingAnswer, rendered, connHist, phase, recvThinking, recvAnswer,
                 recvNodes, terminals>>
  /\ UNCHANGED <<statusHist, dispVars, jobVars>>
  /\ lastSend' = NoSend

\* Does handleSend return before sending? It reads the state of the last render.
SendReturnsEarly(inputOk, docOk, convOk) ==
  ~inputOk \/ rendered.isLoading \/ ~docOk \/ ~convOk \/ ~rendered.isConnected

\* The user's message handleSend appends.
UserMessage == [role |-> "user", content |-> Question]

\* A sendQuery that never takes its not-connected branch.
SendQueryNeverRejects == FALSE

\* sendQuery's guard: !this.socket?.connected
SendQueryRejects == ~SocketConnected

\* The local event sendQuery publishes when it rejects the request.
LocalQueryError(conversation) ==
  [event |-> "query:error", conversation_id |-> conversation,
   message |-> "Not connected to server. Please try again."]

\* handleSend, with sendQuery: a 'query' frame when the socket is connected,
\* otherwise a local 'query:error' that handleQueryError receives at once.
\* handleSend runs in a click or key event, whose state updates React renders
\* before the event returns.
HandleSend(inputOk, docOk, convOk) ==
  /\ mounted
  /\ nEvents < MaxEvents
  /\ IF SendReturnsEarly(inputOk, docOk, convOk)
     THEN /\ UNCHANGED <<messages, isLoading, currentQuestionId, framesSent, phase,
                         terminals, nEvents, rendered>>
          /\ lastSend' = NoSend
     ELSE /\ nEvents' = nEvents + 1
          /\ IF ~SendQueryRejects
             THEN /\ messages' = Append(messages, UserMessage)
                  /\ currentQuestionId' = Len(messages) + 1
                  /\ isLoading' = TRUE
                  /\ framesSent' = framesSent + 1
                  /\ phase' = "submitted"
                  /\ terminals' = 0
                  /\ lastSend' = [called |-> TRUE, conversation_id |-> ConversationId,
                                  local |-> <<>>]
             ELSE /\ messages' = messages \o
                       <<UserMessage, ErrorMessage(LocalQueryError(ConversationId))>>
                  /\ currentQuestionId' = 0
                  /\ isLoading' = FALSE
                  /\ framesSent' = framesSent
                  /\ phase' = "failed"
                  /\ terminals' = 1
                  /\ lastSend' = [called |-> TRUE, conversation_id |-> ConversationId,
                                  local |-> <<LocalQueryError(ConversationId)>>]
          /\ rendered' = Snapshot(streamedAnswer, isLoading', hookIsConnected)
  /\ lastEvent' = "handleSend"
  /\ UNCHANGED <<connVars, listeners, hookVars, mounted, streamedThinking, streamedNodes,
                 streamedAnswer, isStreamingAnswer, connHist, recvThinking,
                 recvAnswer, recvNodes>>
  /\ UNCHANGED <<statusHist, dispVars, jobVars>>

\* ---------------------------------------------------------- specifications
ConnNext ==
  \/ Mount
  \/ Connect
  \/ Disconnect
  \/ \E s \in Sockets : OnConnect(s)
  \/ \E s \in Sockets : OnConnectError(s)
  \/ \E s \in Sockets, reason \in DisconnectReasons : OnDisconnect(s, reason)
  \/ Render

SpecConn == Init /\ [][ConnNext]_vars

Next ==
  \/ Mount
  \/ \E s \in Sockets : OnConnect(s)
  \/ \E s \in Sockets, reason \in DisconnectReasons : OnDisconnect(s, reason)
  \/ Render
  \/ \E i, d, c \in BOOLEAN : HandleSend(i, d, c)
  \/ \E s \in Sockets : QueryStarted(s)
  \/ \E s \in Sockets, chunk \in ThinkingChunks : ThinkingStream(s, chunk)
  \/ \E s \in Sockets, nodeList \in NodeLists : Nodes(s, nodeList)
  \/ \E s \in Sockets, chunk \in AnswerChunks : AnswerStream(s, chunk)
  \/ \E s \in Sockets, data \in AnswerPayloads : AnswerComplete(s, data)
  \/ \E s \in Sockets, msg \in ErrorMessages : QueryError(s, msg)
  \/ \E s \in Sockets : QueryCompleted(s)

Spec == Init /\ [][Next]_vars

\* The manager with a streaming question: connect() and disconnect() calls, the
\* sockets connecting and losing their connection, and answer frames.
StreamNext ==
  \/ Mount
  \/ Connect
  \/ Disconnect
  \/ \E s \in Sockets : OnConnect(s)
  \/ \E s \in Sockets, reason \in DisconnectReasons : OnDisconnect(s, reason)
  \/ \E s \in Sockets : QueryStarted(s)
  \/ \E s \in Sockets, chunk \in AnswerChunks : AnswerStream(s, chunk)

SpecStream == Init /\ [][StreamNext]_vars

\* The local dispatcher: consumers subscribe and unsubscribe, and the frames
\* of a connected socket are published.
PubNext ==
  \/ Connect
  \/ \E s \in Sockets : OnConnect(s)
  \/ \E e \in EventNames, h \in Handlers : On(e, h)
  \/ \E e \in EventNames, h \in Handlers : Off(e, h)
  \/ \E s \in Sockets, e \in EventNames : Emit(s, e)

SpecPub == Init /\ [][PubNext]_vars

\* The DocumentsPanel with its useDocumentUpdates socket.
JobsNext ==
  \/ PanelMount
  \/ \E s \in HookSockets : PanelSocketConnect(s)
  \/ LoadDocuments
  \/ \E docId \in DocIds : HandleGenerateTree(docId)
  \/ \E docId \in DocIds : GenerateTreeFailed(docId)
  \/ \E s \in HookSockets, event \in DocumentUpdateEvents : OnDocumentUpdate(s, event)
  \/ \E s \in HookSockets, event \in TreeGenerationEvents : OnTreeGeneration(s, event)

SpecJobs == Init /\ [][JobsNext]_vars

\* The job events the hook's sockets deliver in SpecPanel.
PanelDocumentEvent ==
  [doc_id |-> 1, status |-> "processing", num_pages |-> Absent, progress |-> <<50>>]

PanelTreeEvent == [doc_id |-> 1, status |-> "started", progress |-> Absent]

\* useDocumentUpdates over mounts, Strict Mode re-runs and unmounts of the
\* DocumentsPanel, with the transport events of the sockets it creates.
PanelNext ==
  \/ PanelMount
  \/ StrictRemount
  \/ PanelUnmount
  \/ \E s \in HookSockets : PanelSocketConnect(s)
  \/ \E s \in HookSockets, reason \in DisconnectReasons : PanelSocketDisconnect(s, reason)
  \/ \E s \in HookSockets : PanelSocketConnectError(s)
  \/ \E s \in HookSockets : OnDocumentUpdate(s, PanelDocumentEvent)
  \/ \E s \in HookSockets : OnTreeGeneration(s, PanelTreeEvent)

SpecPanel == Init /\ [][PanelNext]_vars

\* useWebSocket with its first render and its effects as separate steps, so that
\* transport events and consumer calls can fall between them.
HookNext ==
  \/ HookRender
  \/ HookEffect
  \/ Connect
  \/ Disconnect
  \/ \E s \in Sockets : OnConnect(s)
  \/ \E s \in Sockets : OnConnectError(s)
  \/ \E s \in Sockets, reason \in DisconnectReasons : OnDisconnect(s, reason)

SpecHook == Init /\ [][HookNext]_vars

\* ----------------------------------------------------------------- claims
RECURSIVE Concat(_)
\* c1 + ... + cn, in order.
Concat(chunks) == IF chunks = <<>> THEN "" ELSE chunks[1] \o Concat(Tail(chunks))

Last(seq) == seq[Len(seq)]

\* The step is a run of the handler (or call) named e, not a re-render.
Handled(e) == lastEvent' = e /\ rendered' = rendered

\* C1: when query:answer_complete is handled for a streaming question, the
\* assistant message it appends has as content the concatenation of all the
\* answer chunks received since the last query:started, the last one included.
C1_CompleteIncludesLastChunk ==
  [][(Handled("query:answer_complete") /\ phase = "streaming" /\ mounted)
       => Last(messages').content = Concat(recvAnswer)]_vars

\* C2: a question gets at most one terminal message (one completed answer or
\* one error), however often query:answer_complete and query:error arrive.
C2_OneTerminalOutcome == terminals <= 1

\* C3: once a question is completed or failed, a later thinking_stream, nodes,
\* answer_stream or answer_complete event changes neither the accumulated
\* thinking text, node list and answer text nor the message list.
C3_LateEventsIgnored ==
  [][((phase \in {"completed", "failed"})
        /\ (\E e \in {"query:thinking_stream", "query:nodes", "query:answer_stream",
                      "query:answer_complete"} : Handled(e)))
       => UNCHANGED <<streamedThinking, streamedNodes, streamedAnswer, messages>>]_vars

\* C4: while a question is streaming, the accumulated thinking text and the
\* accumulated answer text are the concatenations, in arrival order, of the
\* chunks received for it.
C4_AccumulationIsConcatenation ==
  (phase = "streaming" /\ mounted)
    => /\ streamedThinking = Concat(recvThinking)
       /\ streamedAnswer = Concat(recvAnswer)

C4_Witness ==
  /\ phase = "streaming"
  /\ Len(recvThinking) = 2
  /\ recvThinking[1] # recvThinking[2]
  /\ Len(recvAnswer) = 1
  /\ streamedThinking = recvThinking[1] \o recvThinking[2]

\* C5: while a question is streaming, the selected node list is the node_list
\* of the most recent query:nodes event, with nothing of the earlier ones.
C5_NodesLastWriteWins ==
  (phase = "streaming" /\ mounted /\ recvNodes # <<>>) => streamedNodes = Last(recvNodes)

C5_Witness ==
  /\ phase = "streaming"
  /\ recvNodes = << <<"0001", "0002">>, <<"0003">> >>
  /\ streamedNodes = <<"0003">>

\* C6: the record appended on query:answer_complete carries the accumulated
\* thinking text, the last node list, the full answer text, and the cost,
\* tokens, cached flag and citations of the payload.
C6_CompletedRecordCarriesAll ==
  [][(Handled("query:answer_complete") /\ phase = "streaming" /\ mounted)
       => LET m == Last(messages') IN
            /\ "thinking" \in DOMAIN m
            /\ "nodes" \in DOMAIN m
            /\ m.thinking = Concat(recvThinking)
            /\ m.nodes = (IF recvNodes = <<>> THEN <<>> ELSE Last(recvNodes))
            /\ m.content = Concat(recvAnswer)
            /\ \E data \in AnswerPayloads :
                 /\ m.cost = data.cost
                 /\ m.tokens = data.tokens_used
                 /\ m.cached = data.cached
                 /\ m.citations = data.citations]_vars

\* C7: on query:error the event's message reaches the message list, the
\* accumulated thinking text, node list and answer text are discarded, the
\* loading state is cleared and no query frame is sent again.
C7_ErrorDiscardsAccumulation ==
  [][(Handled("query:error") /\ mounted)
       => /\ \E msg \in ErrorMessages : Last(messages').content = "Error: " \o msg
          /\ streamedThinking' = ""
          /\ streamedNodes' = <<>>
          /\ streamedAnswer' = ""
          /\ isLoading' = FALSE
          /\ framesSent' = framesSent]_vars

\* C8: with no successful connect in between, the 'error' status has been
\* published once when maxReconnectAttempts or more attempts have failed, and
\* not at all before.
C8_TerminalErrorOnce ==
  errorStatusCount = (IF failedSinceConnect >= maxReconnectAttempts THEN 1 ELSE 0)

\* C9: connect() called while the manager's socket is connected or is still
\* trying to connect (first attempt or automatic reconnection) creates no
\* socket and changes nothing.
C9_ConnectIdempotent ==
  [][(Handled("connect()") /\ socket # 0
        /\ ioState[socket] \in {"opening", "connected", "reconnecting"})
       => UNCHANGED <<socket, ioCreated, ioState, isConnecting>>]_vars

\* C10: reconnectAttempts grows by exactly one in each connect_error handler,
\* is 0 right after each connect handler, and is never negative.
C10_AttemptCounter ==
  /\ reconnectAttempts \in Nat
  /\ lastEvent = "connect_error" => reconnectAttempts = prevAttempts + 1
  /\ lastEvent = "connect" => reconnectAttempts = 0

C10_Witness ==
  /\ lastEvent = "connect"
  /\ prevAttempts >= 2
  /\ reconnectAttempts = 0
\* C11: between a disconnect() call and the next connect() (the manager holds
\* no socket), no frame is published to a registered query handler.
C11_NoDeliveryAfterDisconnect ==
  [][(socket = 0)
       => ~(\E e \in {"query:started", "query:answer_stream"} :
              Handled(e) /\ Registered(e))]_vars

\* C20: once disconnect() was called during a streaming question, an answer
\* chunk that arrives later is not appended to the text accumulated before the
\* disconnect: the answer text then holds only the chunks delivered since the
\* disconnect, or is left as it was.
C20_DisconnectCancelsAccumulation ==
  [][(phase = "cancelled" /\ Handled("query:answer_stream"))
       => (streamedAnswer' = Concat(recvAnswer') \/ streamedAnswer' = streamedAnswer)]_vars
\* C12: every step that changes the manager's connection state (connected,
\* connecting, disconnected) publishes a connection-status event.
C12_TransitionsPublished ==
  [][ConnState' # ConnState => pubFlip' # pubFlip]_vars
\* The step before was an emit to handlers that all leave the registry alone.
PassivePublish == lastEvent = "emit" /\ Range(pub.atStart) \subseteq PassiveHandlers

\* C13: when a handler registered for the emitted event throws, the exception
\* does not leave emit, and (in an emit whose handlers do not change the
\* registry) every handler registered for the event has been called.
C13_ThrowIsIsolated ==
  (lastEvent = "emit" /\ "thrower" \in Range(pub.atStart))
    => /\ ~pub.propagated
       /\ PassivePublish => Range(pub.called) = Range(pub.atStart)

C13_Witness ==
  /\ lastEvent = "emit"
  /\ pub.atStart = <<"thrower", "plain">>
  /\ pub.called = <<"thrower", "plain">>

\* C14: an emit whose handlers do not change the registry has, when it
\* returns, called the handlers registered for its event, each once and in
\* the order of their registration, and no other handler.
C14_CalledInRegistrationOrder ==
  PassivePublish => (pub.terminated /\ pub.called = pub.atStart)

C14_Witness ==
  /\ lastEvent = "emit"
  /\ pub.event = "tree:started"
  /\ pub.called = <<"plain", "thrower">>
  /\ listenerOrder["tree:progress"] = <<"adder">>

NoDuplicates(entries) == Cardinality(Range(entries)) = Len(entries)

\* C15: no handler is registered twice for an event; on() of a handler that
\* is registered for the event, and off() of one that is not, leave the
\* registry as it was.
C15_RegistrationIdempotent ==
  [][/\ \A e \in EventNames : NoDuplicates(listenerOrder'[e])
     /\ (lastEvent' = "on()" /\ lastCall'.was) => listenerOrder' = listenerOrder
     /\ (lastEvent' = "off()" /\ ~lastCall'.was) => listenerOrder' = listenerOrder]_vars

C15_Witness == lastCall.op = "on" /\ lastCall.was

\* C16: every emit returns, having called exactly once each handler that was
\* registered for its event when it began, whatever the handlers subscribe
\* or unsubscribe meanwhile.
C16_PublishDeliversToSnapshot ==
  lastEvent = "emit"
    => /\ pub.terminated
       /\ Len(pub.called) = Len(pub.atStart)
       /\ Range(pub.called) = Range(pub.atStart)
\* The step handles a job event (document:* or tree:*).
JobEvent == lastEvent' \in {"document:update", "tree"}

\* The record the panel tracks for document id, when it has one.
Tracked(docs, id) == {docs[i] : i \in {j \in DOMAIN docs : docs[j].id = id}}

\* C17: once a document job or a tree job has had a terminal event, a later
\* event of that job leaves the document's status, progress and
\* tree-generated flag as they were.
C17_TerminalJobIsFrozen ==
  [][(JobEvent /\ <<lastJob'.doc_id, lastJob'.kind>> \in terminalJobs)
       => \A i \in DOMAIN documents :
            documents[i].id = lastJob'.doc_id
              => /\ documents'[i].status = documents[i].status
                 /\ documents'[i].progress = documents[i].progress
                 /\ documents'[i].treeGenerated = documents[i].treeGenerated]_vars

\* C18: a job event leaves the progress of its document as it was when the
\* event carries no progress, and the page count when it carries no num_pages.
C18_AbsentFieldsKept ==
  [][JobEvent
       => \A i \in DOMAIN documents :
            documents[i].id = lastJob'.doc_id
              => /\ "progress" \in lastJob'.absent
                      => documents'[i].progress = documents[i].progress
                 /\ "num_pages" \in lastJob'.absent
                      => documents'[i].pageCount = documents[i].pageCount]_vars

\* C19: a job event for one document id changes no field of a document with
\* another id, and leaves the other ids' membership of generatingTreeFor.
C19_JobsIndependent ==
  [][JobEvent
       => /\ \A i \in DOMAIN documents :
               documents[i].id # lastJob'.doc_id => documents'[i] = documents[i]
          /\ \A id \in DocIds \ {lastJob'.doc_id} :
               (id \in generatingTreeFor') = (id \in generatingTreeFor)]_vars

C19_Witness ==
  /\ lastJob.kind = "tree" /\ lastJob.doc_id = 2
  /\ 1 \in generatingTreeFor /\ 2 \notin generatingTreeFor
  /\ \E d \in Tracked(documents, 1) : d.status = "processing" /\ d.progress = <<50>>
  /\ \E d \in Tracked(documents, 2) :
        d.status = "indexed" /\ d.progress = Absent /\ d.treeGenerated
\* C21: isConnected() is true exactly when getConnectionState() is
\* 'connected'; it is false before the first connect(), while the manager is
\* connecting, right after disconnect(), and once the manager's socket has
\* given up reconnecting.
C21_IsConnectedIffConnected ==
  /\ isConnected <=> (ConnState = "connected")
  /\ ioCreated = 0 => ~isConnected
  /\ isConnecting => ~isConnected
  /\ lastEvent = "disconnect()" => ~isConnected
  /\ (socket # 0 /\ ioState[socket] = "closed") => ~isConnected

C21_Witness ==
  /\ pubStatus = "error"
  /\ socket # 0 /\ ioState[socket] = "closed"
  /\ ~isConnected
\* C22: right after query:started is handled, the thinking text, the node
\* list and the answer text are empty, whatever they held before.
C22_StartedResetsAccumulators ==
  [][(Handled("query:started") /\ mounted)
       => /\ streamedThinking' = ""
          /\ streamedNodes' = <<>>
          /\ streamedAnswer' = ""]_vars

C22_Witness ==
  /\ lastEvent = "query:started"
  /\ mounted
  /\ isStreamingAnswer
  /\ streamedAnswer = "" /\ streamedThinking = "" /\ streamedNodes = <<>>
\* C23: after a started or processing event for a document id the list holds
\* no record of, the list holds a record of that id.
C23_FirstEventCreatesRecord ==
  [][(JobEvent /\ lastJob'.status \in {"started", "processing"}
        /\ Tracked(documents, lastJob'.doc_id) = {})
       => Tracked(documents', lastJob'.doc_id) # {}]_vars
\* The hook's sockets that are open, connecting or reconnecting, with their
\* handlers attached.
LiveHookSockets == {s \in HookSockets : docIo[s] \in {"opening", "connected", "reconnecting"}}

\* C24: at most one socket created by useDocumentUpdates is live at a time.
C24_OneLiveHookSocket == Cardinality(LiveHookSockets) <= 1

\* C25: while no DocumentsPanel is mounted (the effect's cleanup has run),
\* neither onDocumentUpdate, onTreeGeneration nor onError is called.
C25_NoCallbackAfterCleanup ==
  [][~panelMounted => ~(JobEvent \/ lastEvent' = "onError")]_vars
\* The manager's sockets that are open, connecting or reconnecting, with
\* their handlers attached.
LiveSockets == {s \in Sockets : ioState[s] \in {"opening", "connected", "reconnecting"}}

\* C26: at most one socket created by the WebSocketManager is live at a time.
C26_OneLiveSocket == Cardinality(LiveSockets) <= 1
\* C27: once a connect() made after the cap was exhausted has opened a
\* socket, a connect_error handler publishes the 'error' status only when
\* maxReconnectAttempts or more attempts have failed since that call.
C27_FreshBudgetAfterConnect ==
  [][(Handled("connect_error") /\ pubFlip' # pubFlip /\ failedSinceResume # <<>>
        /\ Cardinality(LiveSockets) <= 1)
       => failedSinceResume'[1] >= maxReconnectAttempts]_vars

\* C28: a sendQuery made while the socket is not connected transmits no frame
\* and publishes exactly one local query:error carrying the request's
\* conversation_id, which handleQueryError shows as the chat's last message; a
\* sendQuery made while the socket is connected transmits exactly one 'query'
\* frame and publishes no local event.
C28_SendQueryBranches ==
  [][(lastEvent' = "handleSend" /\ lastSend'.called)
       => IF SocketConnected
          THEN /\ framesSent' = framesSent + 1
               /\ lastSend'.local = <<>>
               /\ messages' = Append(messages, UserMessage)
          ELSE /\ framesSent' = framesSent
               /\ Len(lastSend'.local) = 1
               /\ lastSend'.local[1].event = "query:error"
               /\ lastSend'.local[1].conversation_id = lastSend'.conversation_id
               /\ messages'[Len(messages')].content =
                    "Error: Not connected to server. Please try again."]_vars

\* handleSend ran on a render that still showed the connection as up after the
\* socket had dropped, so sendQuery took its not-connected branch.
C28_Witness ==
  /\ lastEvent = "handleSend"
  /\ lastSend.called
  /\ lastSend.local # <<>>
  /\ ~SocketConnected
  /\ framesSent = 0


\* Only the first socket has been created, so no socket was ever orphaned by a
\* second connect().
OneSocketEver == \A s \in Sockets : s > 1 => ioState[s] = "none"

\* C29: between events, the isConnected value of a mounted useWebSocket hook
\* (rendered, effects run) equals wsManager.isConnected(); stated for the runs
\* in which the manager never had more than one socket.
C29_HookMirrorsManager ==
  (mounted /\ Registered("connection-status") /\ OneSocketEver)
    => (hookIsConnected <=> isConnected)


\* A 'query' frame has been sent and neither query:started nor a terminal event
\* (query:answer_complete, query:error) has been handled since.
AwaitingResponse == phase = "submitted" /\ terminals = 0

\* C30: handleSend transmits a query only from a render that reports the
\* connection as connected and no question as loading, and never while the
\* previous question is still waiting for its terminal event.
C30_OneQuestionInFlight ==
  [][(lastEvent' = "handleSend" /\ framesSent' = framesSent + 1)
       => /\ rendered.isConnected
          /\ ~rendered.isLoading
          /\ ~AwaitingResponse]_vars

============================================================================
